---- MODULE Spec2Model ----
(***************************************************************************)
(* ApplyFlow: the email pipeline (match -> classify -> persist -> decide   *)
(* -> update), the manual status edit and the status-history trigger.      *)
(*                                                                         *)
(* Confidences are kept in hundredths (0.7 is 70, 0.9 is 90): the          *)
(* classifier schema bounds them to [0,1] and the database column is       *)
(* DECIMAL(3,2).  Row ids are the row's position in its table.             *)
(***************************************************************************)
EXTENDS Integers, Sequences, FiniteSets, TLC

NULL == "null"

(***************************************************************************)
(* Bounds of the model.                                                    *)
(***************************************************************************)
MaxEvents == 2
MaxChanges == 6

(***************************************************************************)
(* lib/email/status-transitions.ts                                         *)
(***************************************************************************)
EmailClassification ==
  {"REJECTION", "INTERVIEW_REQUEST", "OFFER", "SCREENING_INVITE",
   "ASSESSMENT_REQUEST", "GENERIC_UPDATE", "UNRELATED"}

ApplicationStatus ==
  {"SAVED", "APPLIED", "SCREENING", "INTERVIEWING", "OFFER",
   "ACCEPTED", "REJECTED", "WITHDRAWN", "GHOSTED"}

\* Variant: a generic update counts as the application having been made.
CLASSIFICATION_TO_STATUS_genericApplies ==
  [c \in EmailClassification |->
     CASE c = "REJECTION" -> "REJECTED"
       [] c = "INTERVIEW_REQUEST" -> "INTERVIEWING"
       [] c = "OFFER" -> "OFFER"
       [] c = "SCREENING_INVITE" -> "SCREENING"
       [] c = "ASSESSMENT_REQUEST" -> "SCREENING"
       [] c = "GENERIC_UPDATE" -> "APPLIED"
       [] c = "UNRELATED" -> NULL]

CLASSIFICATION_TO_STATUS ==
  [c \in EmailClassification |->
     CASE c = "REJECTION" -> "REJECTED"
       [] c = "INTERVIEW_REQUEST" -> "INTERVIEWING"
       [] c = "OFFER" -> "OFFER"
       [] c = "SCREENING_INVITE" -> "SCREENING"
       [] c = "ASSESSMENT_REQUEST" -> "SCREENING"
       [] c = "GENERIC_UPDATE" -> NULL
       [] c = "UNRELATED" -> NULL]

\* Variants of VALID_TRANSITIONS with one edge added.
VALID_TRANSITIONS_appeal ==
  [s \in ApplicationStatus |->
     CASE s = "SAVED" -> {"APPLIED", "REJECTED", "WITHDRAWN"}
       [] s = "APPLIED" -> {"SCREENING", "INTERVIEWING", "OFFER", "REJECTED",
                            "WITHDRAWN", "GHOSTED"}
       [] s = "SCREENING" -> {"INTERVIEWING", "OFFER", "REJECTED", "WITHDRAWN",
                              "GHOSTED"}
       [] s = "INTERVIEWING" -> {"OFFER", "REJECTED", "WITHDRAWN", "GHOSTED"}
       [] s = "OFFER" -> {"ACCEPTED", "REJECTED", "WITHDRAWN"}
       [] s = "ACCEPTED" -> {}
       [] s = "REJECTED" -> {"INTERVIEWING"}
       [] s = "WITHDRAWN" -> {}
       [] s = "GHOSTED" -> {"SCREENING", "INTERVIEWING", "REJECTED"}]

VALID_TRANSITIONS_backEdge ==
  [s \in ApplicationStatus |->
     CASE s = "SAVED" -> {"APPLIED", "REJECTED", "WITHDRAWN"}
       [] s = "APPLIED" -> {"SCREENING", "INTERVIEWING", "OFFER", "REJECTED",
                            "WITHDRAWN", "GHOSTED"}
       [] s = "SCREENING" -> {"INTERVIEWING", "OFFER", "REJECTED", "WITHDRAWN",
                              "GHOSTED"}
       [] s = "INTERVIEWING" -> {"SCREENING", "OFFER", "REJECTED", "WITHDRAWN",
                                 "GHOSTED"}
       [] s = "OFFER" -> {"ACCEPTED", "REJECTED", "WITHDRAWN"}
       [] s = "ACCEPTED" -> {}
       [] s = "REJECTED" -> {}
       [] s = "WITHDRAWN" -> {}
       [] s = "GHOSTED" -> {"SCREENING", "INTERVIEWING", "REJECTED"}]

VALID_TRANSITIONS ==
  [s \in ApplicationStatus |->
     CASE s = "SAVED" -> {"APPLIED", "REJECTED", "WITHDRAWN"}
       [] s = "APPLIED" -> {"SCREENING", "INTERVIEWING", "OFFER", "REJECTED",
                            "WITHDRAWN", "GHOSTED"}
       [] s = "SCREENING" -> {"INTERVIEWING", "OFFER", "REJECTED", "WITHDRAWN",
                              "GHOSTED"}
       [] s = "INTERVIEWING" -> {"OFFER", "REJECTED", "WITHDRAWN", "GHOSTED"}
       [] s = "OFFER" -> {"ACCEPTED", "REJECTED", "WITHDRAWN"}
       [] s = "ACCEPTED" -> {}
       [] s = "REJECTED" -> {}
       [] s = "WITHDRAWN" -> {}
       [] s = "GHOSTED" -> {"SCREENING", "INTERVIEWING", "REJECTED"}]

AUTO_UPDATE == 90
FLAG_FOR_REVIEW == 70
MaxConfidence == 100

Confidence == 0..MaxConfidence

TransitionResult(shouldUpdate, newStatus, needsReview) ==
  [shouldUpdate |-> shouldUpdate, newStatus |-> newStatus,
   needsReview |-> needsReview]

\* Variants of getStatusTransition with one slip each.
getStatusTransition_validityLast(classification, confidence, currentStatus) ==
  LET targetStatus == CLASSIFICATION_TO_STATUS[classification] IN
  IF targetStatus = NULL
    THEN TransitionResult(FALSE, NULL, FALSE)
  ELSE IF confidence < FLAG_FOR_REVIEW
    THEN TransitionResult(FALSE, targetStatus, TRUE)
  ELSE IF confidence >= AUTO_UPDATE
    THEN TransitionResult(TRUE, targetStatus, FALSE)
  ELSE IF targetStatus \notin VALID_TRANSITIONS[currentStatus]
    THEN TransitionResult(FALSE, NULL, TRUE)
  ELSE TransitionResult(TRUE, targetStatus, TRUE)

getStatusTransition_autoExclusive(classification, confidence, currentStatus) ==
  LET targetStatus == CLASSIFICATION_TO_STATUS[classification] IN
  IF targetStatus = NULL
    THEN TransitionResult(FALSE, NULL, FALSE)
  ELSE IF targetStatus \notin VALID_TRANSITIONS[currentStatus]
    THEN TransitionResult(FALSE, NULL, TRUE)
  ELSE IF confidence < FLAG_FOR_REVIEW
    THEN TransitionResult(FALSE, targetStatus, TRUE)
  ELSE TransitionResult(TRUE, targetStatus, confidence <= AUTO_UPDATE)

getStatusTransition_flagExclusive(classification, confidence, currentStatus) ==
  LET targetStatus == CLASSIFICATION_TO_STATUS[classification] IN
  IF targetStatus = NULL
    THEN TransitionResult(FALSE, NULL, FALSE)
  ELSE IF targetStatus \notin VALID_TRANSITIONS[currentStatus]
    THEN TransitionResult(FALSE, NULL, TRUE)
  ELSE IF confidence <= FLAG_FOR_REVIEW
    THEN TransitionResult(FALSE, targetStatus, TRUE)
  ELSE TransitionResult(TRUE, targetStatus, confidence < AUTO_UPDATE)

getStatusTransition_noThreshold(classification, confidence, currentStatus) ==
  LET targetStatus == CLASSIFICATION_TO_STATUS[classification] IN
  IF targetStatus = NULL
    THEN TransitionResult(FALSE, NULL, FALSE)
  ELSE IF targetStatus \notin VALID_TRANSITIONS[currentStatus]
    THEN TransitionResult(FALSE, NULL, TRUE)
  ELSE TransitionResult(TRUE, targetStatus, confidence < AUTO_UPDATE)

getStatusTransition_noopFlagged(classification, confidence, currentStatus) ==
  LET targetStatus == CLASSIFICATION_TO_STATUS[classification] IN
  IF targetStatus = NULL
    THEN TransitionResult(FALSE, NULL, confidence < FLAG_FOR_REVIEW)
  ELSE IF targetStatus \notin VALID_TRANSITIONS[currentStatus]
    THEN TransitionResult(FALSE, NULL, TRUE)
  ELSE IF confidence < FLAG_FOR_REVIEW
    THEN TransitionResult(FALSE, targetStatus, TRUE)
  ELSE TransitionResult(TRUE, targetStatus, confidence < AUTO_UPDATE)

getStatusTransition_invalidSilent(classification, confidence, currentStatus) ==
  LET targetStatus == CLASSIFICATION_TO_STATUS[classification] IN
  IF targetStatus = NULL
    THEN TransitionResult(FALSE, NULL, FALSE)
  ELSE IF targetStatus \notin VALID_TRANSITIONS[currentStatus]
    THEN TransitionResult(FALSE, NULL, FALSE)
  ELSE IF confidence < FLAG_FOR_REVIEW
    THEN TransitionResult(FALSE, targetStatus, TRUE)
  ELSE TransitionResult(TRUE, targetStatus, confidence < AUTO_UPDATE)

getStatusTransition(classification, confidence, currentStatus) ==
  LET targetStatus == CLASSIFICATION_TO_STATUS[classification] IN
  IF targetStatus = NULL
    THEN TransitionResult(FALSE, NULL, FALSE)
  ELSE IF targetStatus \notin VALID_TRANSITIONS[currentStatus]
    THEN TransitionResult(FALSE, NULL, TRUE)
  ELSE IF confidence < FLAG_FOR_REVIEW
    THEN TransitionResult(FALSE, targetStatus, TRUE)
  ELSE TransitionResult(TRUE, targetStatus, confidence < AUTO_UPDATE)

getTriggerType(confidence) ==
  IF confidence >= FLAG_FOR_REVIEW THEN "email_auto" ELSE "email_manual"


(***************************************************************************)
(* The repository's rows that the pipeline only reads.  A company name is  *)
(* its sequence of lower-cased words: every comparison the matcher makes   *)
(* is case-insensitive (ilike).  A sender domain is its sequence of labels.*)
(***************************************************************************)
APPLICATIONS ==
  << [id |-> 1, user_id |-> "u1", company_name |-> <<"stripe">>,
      created_at |-> 1],
     [id |-> 2, user_id |-> "u1", company_name |-> <<"linkedin">>,
      created_at |-> 2],
     [id |-> 3, user_id |-> "u2", company_name |-> <<"meta">>,
      created_at |-> 3] >>

AppIds == DOMAIN APPLICATIONS

\* The inbound events the webhook forwards (route.ts POST, inngest.send).
\* ats / subjectCompany are what the provider pattern and the subject
\* templates recover from the text of the email (<<>> when none matches).
INBOUND ==
  << [userId |-> "u1", domain |-> <<"stripe", "com">>,
      ats |-> <<>>, subjectCompany |-> <<>>],
     [userId |-> "u1", domain |-> <<"greenhouse", "io">>,
      ats |-> <<"stripe">>, subjectCompany |-> <<>>],
     [userId |-> "u1", domain |-> <<"example", "org">>,
      ats |-> <<>>, subjectCompany |-> <<>>] >>

Messages == DOMAIN INBOUND

(***************************************************************************)
(* lib/email/ats-patterns.ts and lib/email/matching.ts                     *)
(***************************************************************************)
ATS_PATTERNS ==
  { <<"greenhouse", "io">>, <<"lever", "co">>, <<"ashbyhq", "com">>,
    <<"jobvite", "com">>, <<"workday", "com">>, <<"myworkdayjobs", "com">>,
    <<"icims", "com">>, <<"smartrecruiters", "com">>, <<"linkedin", "com">> }

atsDomains ==
  { <<"greenhouse", "io">>, <<"lever", "co">>, <<"ashbyhq", "com">>,
    <<"jobvite", "com">>, <<"workday", "com">>, <<"icims", "com">> }

COMPANY_SUFFIXES ==
  {"inc", "llc", "corp", "corporation", "ltd", "limited", "co"}

\* String.includes / ilike '%x%' on word (label) sequences.
Includes(hay, needle) ==
  \E k \in 0..(Len(hay) - Len(needle)) :
    \A j \in 1..Len(needle) : hay[k + j] = needle[j]

normalizeCompanyName(name) ==
  SelectSeq(name, LAMBDA w : w \notin COMPANY_SUFFIXES)

extractCompanyFromATS(email) ==
  IF \E atsDomain \in ATS_PATTERNS : Includes(email.domain, atsDomain)
    THEN email.ats
    ELSE <<>>

\* .order('created_at', {ascending: false}).limit(1).single()
MostRecent(ids) ==
  IF ids = {} THEN 0
  ELSE CHOOSE a \in ids :
         \A b \in ids : APPLICATIONS[b].created_at <= APPLICATIONS[a].created_at

findApplicationByCompanyName(userId, companyName) ==
  LET mine == {a \in AppIds : APPLICATIONS[a].user_id = userId}
      exactMatch ==
        MostRecent({a \in mine : APPLICATIONS[a].company_name = companyName})
      partialMatch ==
        MostRecent({a \in mine :
          Includes(APPLICATIONS[a].company_name,
                   normalizeCompanyName(companyName))})
  IN IF exactMatch # 0 THEN exactMatch ELSE partialMatch

findApplicationByDomain(userId, domain) ==
  IF \E ats \in atsDomains : Includes(domain, ats)
    THEN 0
    ELSE LET companySlug ==
               IF Len(domain) >= 2 THEN domain[Len(domain) - 1]
               ELSE IF Len(domain) = 1 THEN domain[1] ELSE ""
         IN MostRecent({a \in AppIds :
              /\ APPLICATIONS[a].user_id = userId
              /\ Includes(APPLICATIONS[a].company_name, <<companySlug>>)})

MatchResult(applicationId, confidence, matchType) ==
  [applicationId |-> applicationId, confidence |-> confidence,
   matchType |-> matchType]

\* Variants of matchEmailToApplication with one slip each.
matchEmailToApplication_domainFirst(userId, email) ==
  LET atsCompany == extractCompanyFromATS(email)
      match == IF atsCompany # <<>>
                 THEN findApplicationByCompanyName(userId, atsCompany) ELSE 0
      domainMatch == findApplicationByDomain(userId, email.domain)
      extractedCompany == email.subjectCompany
      fuzzyMatch == IF extractedCompany # <<>>
                      THEN findApplicationByCompanyName(userId, extractedCompany)
                      ELSE 0
  IN IF domainMatch # 0 THEN MatchResult(domainMatch, 95, "domain")
     ELSE IF match # 0 THEN MatchResult(match, 90, "ats")
     ELSE IF fuzzyMatch # 0 THEN MatchResult(fuzzyMatch, 70, "fuzzy")
     ELSE MatchResult(0, 0, "none")

matchEmailToApplication_swappedConfidence(userId, email) ==
  LET atsCompany == extractCompanyFromATS(email)
      match == IF atsCompany # <<>>
                 THEN findApplicationByCompanyName(userId, atsCompany) ELSE 0
      domainMatch == findApplicationByDomain(userId, email.domain)
      extractedCompany == email.subjectCompany
      fuzzyMatch == IF extractedCompany # <<>>
                      THEN findApplicationByCompanyName(userId, extractedCompany)
                      ELSE 0
  IN IF match # 0 THEN MatchResult(match, 95, "ats")
     ELSE IF domainMatch # 0 THEN MatchResult(domainMatch, 90, "domain")
     ELSE IF fuzzyMatch # 0 THEN MatchResult(fuzzyMatch, 70, "fuzzy")
     ELSE MatchResult(0, 0, "none")

matchEmailToApplication(userId, email) ==
  LET atsCompany == extractCompanyFromATS(email)
      match == IF atsCompany # <<>>
                 THEN findApplicationByCompanyName(userId, atsCompany) ELSE 0
      domainMatch == findApplicationByDomain(userId, email.domain)
      extractedCompany == email.subjectCompany
      fuzzyMatch == IF extractedCompany # <<>>
                      THEN findApplicationByCompanyName(userId, extractedCompany)
                      ELSE 0
  IN IF match # 0 THEN MatchResult(match, 90, "ats")
     ELSE IF domainMatch # 0 THEN MatchResult(domainMatch, 95, "domain")
     ELSE IF fuzzyMatch # 0 THEN MatchResult(fuzzyMatch, 70, "fuzzy")
     ELSE MatchResult(0, 0, "none")

SUGGESTION_LIMIT == 5

\* The ids of a set of applications, most recently created first.
RECURSIVE ByRecency(_)
ByRecency(ids) ==
  IF ids = {} THEN <<>>
  ELSE LET a == MostRecent(ids) IN <<a>> \o ByRecency(ids \ {a})


(***************************************************************************)
(* State.                                                                  *)
(*   appStatus           applications.status, per application id           *)
(*   status_history      the status_history table, oldest row first        *)
(*   application_emails  the application_emails table                      *)
(*   unmatched_emails    the unmatched_emails table                        *)
(*   runs                the process-email invocations, in order of their  *)
(*                       'email/received' events; each holds its step      *)
(*                       cursor (pc) and the checkpointed step results     *)
(*   events              number of events from outside so far: inbound     *)
(*                       deliveries, manual edits and failed step          *)
(*                       executions                                        *)
(*   decide              inputs and result of one getStatusTransition call *)
(*   matching            inputs and result of one matchEmailToApplication  *)
(*                       call                                              *)
(*   serial              one application whose emails are processed one    *)
(*                       run after the other: its status, the statuses it  *)
(*                       has had, and the last email's category and effect *)
(* Fields "run" / "by" of a row and "afterSuccess" / "statusWrites" /      *)
(* "classifyFailed" of a run record what happened; no operation reads      *)
(* them.                                                                   *)
(***************************************************************************)
VARIABLES appStatus, status_history, application_emails, unmatched_emails,
          runs, events, decide, matching, serial

vars == <<appStatus, status_history, application_emails, unmatched_emails,
          runs, events, decide, matching, serial>>

tables == <<appStatus, status_history, application_emails, unmatched_emails>>

calls == <<decide, matching, serial>>

Retries == 3

Finished == {"processed", "unmatched"}

NoTransition == TransitionResult(FALSE, NULL, FALSE)

\* What the model provider answers in the pipeline runs (a sample of the
\* schema's objects: one per confidence band).
ModelOutputs ==
  { [type |-> "INTERVIEW_REQUEST", confidence |-> 95],
    [type |-> "REJECTION", confidence |-> 75],
    [type |-> "OFFER", confidence |-> 50] }

RunIds == DOMAIN runs

\* Variant: the trigger inserts on every update of the row.
create_status_history_everyUpdate(a, new, by) ==
  Append(status_history,
    [application_id |-> a, from_status |-> appStatus[a],
     to_status |-> new, trigger_type |-> "manual",
     trigger_email_id |-> 0, by |-> by])

\* create_status_history(): the AFTER UPDATE trigger of applications.
create_status_history(a, new, by) ==
  IF appStatus[a] # new
    THEN Append(status_history,
           [application_id |-> a, from_status |-> appStatus[a],
            to_status |-> new, trigger_type |-> "manual",
            trigger_email_id |-> 0, by |-> by])
    ELSE status_history

\* supabase.from('applications').update({ status }).eq('id', a)
UpdateStatus(a, new, by) ==
  /\ appStatus' = [appStatus EXCEPT ![a] = new]
  /\ status_history' = create_status_history(a, new, by)

\* Variant: one retry more than configured.
Retry_offByOne(r, stepStart) ==
  IF r.attempts <= Retries
    THEN [r EXCEPT !.attempts = @ + 1, !.pc = stepStart]
    ELSE [r EXCEPT !.pc = "failed"]

\* A failed execution of the current step: retried from the step's start
\* until the retries are used up.
Retry(r, stepStart) ==
  IF r.attempts < Retries
    THEN [r EXCEPT !.attempts = @ + 1, !.pc = stepStart]
    ELSE [r EXCEPT !.pc = "failed"]

Completed(r, next) == [r EXCEPT !.attempts = 0, !.pc = next]

InitTables ==
  /\ appStatus = [a \in AppIds |-> "APPLIED"]
  /\ status_history = <<>>
  /\ application_emails = <<>>
  /\ unmatched_emails = <<>>
  /\ runs = <<>>
  /\ events = 0

DecideIdle ==
  [classification |-> "UNRELATED", confidence |-> 0,
   currentStatus |-> "SAVED", called |-> FALSE, result |-> NoTransition]

\* No matchEmailToApplication call under way.
MatchIdle ==
  [email |-> [userId |-> "u1", domain |-> <<>>, ats |-> <<>>,
              subjectCompany |-> <<>>],
   called |-> FALSE, result |-> MatchResult(0, 0, "none")]

SerialAt(status) ==
  [status |-> status, trail |-> <<status>>,
   classification |-> "UNRELATED", applied |-> FALSE]

Init ==
  /\ InitTables
  /\ decide = DecideIdle
  /\ matching = MatchIdle
  /\ serial = SerialAt("APPLIED")

\* POST /api/webhooks/inbound-email: every delivery sends one event, and
\* every event starts one run.
NewRun(m, afterSuccess) ==
  [msg |-> m, pc |-> "match", attempts |-> 0,
   matchResult |-> MatchResult(0, 0, "none"),
   classification |-> [type |-> NULL, confidence |-> 0],
   classifyFailed |-> FALSE,
   emailRecord |-> 0, application |-> NULL,
   transition |-> NoTransition,
   afterSuccess |-> afterSuccess,
   statusWrites |-> 0]

InboundEmail(m) ==
  /\ events < MaxEvents
  /\ events' = events + 1
  /\ runs' = Append(runs,
       NewRun(m, \E j \in RunIds :
                   runs[j].msg = m /\ runs[j].pc \in Finished))
  /\ UNCHANGED <<tables, calls>>

\* Variant: the matcher itself queues the email when it finds nothing.
MatchApplication_queuesUnmatched(i) ==
  /\ runs[i].pc = "match"
  /\ LET result == matchEmailToApplication(INBOUND[runs[i].msg].userId,
                                           INBOUND[runs[i].msg])
     IN /\ runs' = [runs EXCEPT ![i] =
              Completed([@ EXCEPT !.matchResult = result], "classify")]
        /\ unmatched_emails' =
             IF result.applicationId = 0
               THEN Append(unmatched_emails,
                      [user_id |-> INBOUND[runs[i].msg].userId,
                       email_id |-> 0,
                       suggested_application_ids |-> <<>>,
                       status |-> "pending",
                       seen |-> appStatus])
               ELSE unmatched_emails
  /\ UNCHANGED <<appStatus, status_history, application_emails, events, calls>>

\* step 'match-application'
MatchApplication(i) ==
  /\ runs[i].pc = "match"
  /\ runs' = [runs EXCEPT ![i] =
       Completed([@ EXCEPT !.matchResult =
         matchEmailToApplication(INBOUND[runs[i].msg].userId,
                                 INBOUND[runs[i].msg])],
         "classify")]
  /\ UNCHANGED <<tables, events, calls>>

NoObject == [type |-> NULL, confidence |-> 0]

\* Variant: the default of a failed call is a category with a target.
classifyEmail_defaultHasTarget(object, failed) ==
  IF failed THEN [type |-> "REJECTION", confidence |-> 50] ELSE object

\* classifyEmail: the provider's object, or the default when the call fails.
classifyEmail(object, failed) ==
  IF failed THEN [type |-> "GENERIC_UPDATE", confidence |-> 50] ELSE object

\* step 'classify-email'
ClassifyEmail(i) ==
  /\ runs[i].pc = "classify"
  /\ \E object \in ModelOutputs \cup {NoObject} :
       runs' = [runs EXCEPT ![i] =
         Completed([@ EXCEPT !.classification =
                      classifyEmail(object, object = NoObject),
                             !.classifyFailed = (object = NoObject)],
                   "create_email")]
  /\ UNCHANGED <<tables, events, calls>>

EmailRow(i) ==
  [id |-> Len(application_emails) + 1,
   msg |-> runs[i].msg,
   application_id |-> runs[i].matchResult.applicationId,
   classification |-> runs[i].classification.type,
   classification_confidence |-> runs[i].classification.confidence,
   run |-> i]

\* Variant: the step reports an id without having inserted the row.
CreateEmailRecord_noInsert(i) ==
  /\ runs[i].pc = "create_email"
  /\ runs' = [runs EXCEPT ![i] =
       Completed([@ EXCEPT !.emailRecord = Len(application_emails) + 1],
         IF @.matchResult.applicationId = 0
           THEN "create_unmatched" ELSE "get_application")]
  /\ UNCHANGED <<tables, events, calls>>

\* step 'create-email-record'
CreateEmailRecord(i) ==
  /\ runs[i].pc = "create_email"
  /\ application_emails' = Append(application_emails, EmailRow(i))
  /\ runs' = [runs EXCEPT ![i] =
       Completed([@ EXCEPT !.emailRecord = Len(application_emails) + 1],
         IF @.matchResult.applicationId = 0
           THEN "create_unmatched" ELSE "get_application")]
  /\ UNCHANGED <<appStatus, status_history, unmatched_emails, events, calls>>

\* step 'create-email-record' whose insert is committed but whose result
\* never reaches the checkpoint (lost response, crash): the step is retried.
InsertLost(i) ==
  /\ runs[i].pc = "create_email"
  /\ application_emails' = Append(application_emails, EmailRow(i))
  /\ runs' = [runs EXCEPT ![i] = Retry(@, "create_email")]
  /\ UNCHANGED <<appStatus, status_history, unmatched_emails, calls>>

CreateEmailRecordLost(i) ==
  /\ events < MaxEvents
  /\ events' = events + 1
  /\ InsertLost(i)

\* A step that throws before it wrote anything ('if (error) throw error').
Throws(i) ==
  /\ runs[i].pc \in {"create_email", "get_application", "update_status"}
  /\ runs' = [runs EXCEPT ![i] = Retry(@, @.pc)]
  /\ UNCHANGED <<tables, calls>>

StepError(i) ==
  /\ events < MaxEvents
  /\ events' = events + 1
  /\ Throws(i)

\* The rows of the suggestions query ('data'; 'data || []' turns a failed
\* query into the empty list, see CreateUnmatchedRecord).
getSuggestedApplications(userId) ==
  LET rows == ByRecency({a \in AppIds :
                /\ APPLICATIONS[a].user_id = userId
                /\ appStatus[a] \in {"APPLIED", "SCREENING", "INTERVIEWING"}})
  IN SubSeq(rows, 1, IF Len(rows) < SUGGESTION_LIMIT
                       THEN Len(rows) ELSE SUGGESTION_LIMIT)

\* step 'create-unmatched-record'; neither the query's nor the insert's
\* error is looked at.  "seen" records the statuses at the time of the query.
CreateUnmatchedRecord(i) ==
  /\ runs[i].pc = "create_unmatched"
  /\ \E inserted \in BOOLEAN, queryFailed \in BOOLEAN :
       unmatched_emails' =
         IF inserted
           THEN Append(unmatched_emails,
                  [user_id |-> INBOUND[runs[i].msg].userId,
                   email_id |-> runs[i].emailRecord,
                   suggested_application_ids |->
                     IF queryFailed THEN <<>>
                     ELSE getSuggestedApplications(INBOUND[runs[i].msg].userId),
                   status |-> "pending",
                   seen |-> appStatus])
           ELSE unmatched_emails
  /\ runs' = [runs EXCEPT ![i] = Completed(@, "unmatched")]
  /\ UNCHANGED <<appStatus, status_history, application_emails, events, calls>>

\* step 'create-unmatched-record' whose insert is committed but whose result
\* never reaches the checkpoint: the step is executed again.
UnmatchedInsertLost(i) ==
  /\ runs[i].pc = "create_unmatched"
  /\ \E queryFailed \in BOOLEAN :
       unmatched_emails' =
         Append(unmatched_emails,
           [user_id |-> INBOUND[runs[i].msg].userId,
            email_id |-> runs[i].emailRecord,
            suggested_application_ids |->
              IF queryFailed THEN <<>>
              ELSE getSuggestedApplications(INBOUND[runs[i].msg].userId),
            status |-> "pending",
            seen |-> appStatus])
  /\ runs' = [runs EXCEPT ![i] = Retry(@, "create_unmatched")]
  /\ UNCHANGED <<appStatus, status_history, application_emails, calls>>

CreateUnmatchedRecordLost(i) ==
  /\ events < MaxEvents
  /\ events' = events + 1
  /\ UnmatchedInsertLost(i)

\* step 'get-application', then the decision (step 6) and the branch on it.
GetApplication(i) ==
  /\ runs[i].pc = "get_application"
  /\ LET status == appStatus[runs[i].matchResult.applicationId]
         transition == getStatusTransition(runs[i].classification.type,
                         runs[i].classification.confidence, status)
     IN runs' = [runs EXCEPT ![i] =
          Completed([@ EXCEPT !.application = status,
                              !.transition = transition],
            IF transition.shouldUpdate /\ transition.newStatus # NULL
              THEN "update_status" ELSE "processed")]
  /\ UNCHANGED <<tables, events, calls>>

\* step 'update-application-status', its first write.
UpdateApplicationStatus(i) ==
  /\ runs[i].pc = "update_status"
  /\ UpdateStatus(runs[i].matchResult.applicationId,
                  runs[i].transition.newStatus, i)
  /\ runs' = [runs EXCEPT ![i].pc = "update_history",
                          ![i].statusWrites = @ + 1]
  /\ UNCHANGED <<application_emails, unmatched_emails, events, calls>>

\* The newest status_history row of an application (0 when it has none).
LatestHistory(a) ==
  LET ks == {k \in DOMAIN status_history :
               status_history[k].application_id = a}
  IN IF ks = {} THEN 0 ELSE CHOOSE k \in ks : \A j \in ks : j <= k

\* step 'update-application-status', its second write: the newest history
\* row of the application gets the trigger data; an error is only logged.
UpdateStatusHistory(i) ==
  /\ runs[i].pc = "update_history"
  /\ \E historyError \in BOOLEAN :
       LET k == LatestHistory(runs[i].matchResult.applicationId) IN
       status_history' =
         IF historyError \/ k = 0
           THEN status_history
           ELSE [status_history EXCEPT
                   ![k].trigger_type =
                      getTriggerType(runs[i].classification.confidence),
                   ![k].trigger_email_id = runs[i].emailRecord]
  /\ runs' = [runs EXCEPT ![i] = Completed(@, "processed")]
  /\ UNCHANGED <<appStatus, application_emails, unmatched_emails, events, calls>>

\* step 'update-application-status' interrupted after its first write: the
\* whole step is executed again.
UpdateLost(i) ==
  /\ runs[i].pc = "update_history"
  /\ runs' = [runs EXCEPT ![i] = Retry(@, "update_status")]
  /\ UNCHANGED <<tables, calls>>

UpdateStepLost(i) ==
  /\ events < MaxEvents
  /\ events' = events + 1
  /\ UpdateLost(i)

\* PUT (manual status edit): any of the nine statuses is accepted.
PUT(applicationId, status) ==
  /\ events < MaxEvents
  /\ events' = events + 1
  /\ IF appStatus[applicationId] = status
       THEN UNCHANGED <<appStatus, status_history>>
       ELSE UpdateStatus(applicationId, status, 0)
  /\ UNCHANGED <<application_emails, unmatched_emails, runs, calls>>

Pipeline ==
  \/ \E m \in Messages : InboundEmail(m)
  \/ \E i \in RunIds : MatchApplication(i)
  \/ \E i \in RunIds : ClassifyEmail(i)
  \/ \E i \in RunIds : CreateEmailRecord(i)
  \/ \E i \in RunIds : CreateEmailRecordLost(i)
  \/ \E i \in RunIds : StepError(i)
  \/ \E i \in RunIds : CreateUnmatchedRecord(i)
  \/ \E i \in RunIds : CreateUnmatchedRecordLost(i)
  \/ \E i \in RunIds : GetApplication(i)
  \/ \E i \in RunIds : UpdateApplicationStatus(i)
  \/ \E i \in RunIds : UpdateStatusHistory(i)
  \/ \E i \in RunIds : UpdateStepLost(i)

Next ==
  \/ Pipeline
  \/ \E a \in AppIds, s \in ApplicationStatus : PUT(a, s)

Spec == Init /\ [][Next]_vars


\* The pipeline alone: deliveries, steps and step failures, no manual edit.
SpecPipeline == Init /\ [][Pipeline]_vars

(***************************************************************************)
(* One run of processEmail whose steps may fail any number of times: the   *)
(* event has been delivered, nothing else arrives from outside.            *)
(***************************************************************************)
InitRetry ==
  /\ appStatus = [a \in AppIds |-> "APPLIED"]
  /\ status_history = <<>>
  /\ application_emails = <<>>
  /\ unmatched_emails = <<>>
  /\ \E m \in Messages : runs = <<NewRun(m, FALSE)>>
  /\ events = MaxEvents
  /\ decide = DecideIdle
  /\ matching = MatchIdle
  /\ serial = SerialAt("APPLIED")

NextRetry ==
  \/ \E i \in RunIds : MatchApplication(i)
  \/ \E i \in RunIds : ClassifyEmail(i)
  \/ \E i \in RunIds : CreateEmailRecord(i)
  \/ \E i \in RunIds : InsertLost(i) /\ UNCHANGED events
  \/ \E i \in RunIds : Throws(i) /\ UNCHANGED events
  \/ \E i \in RunIds : CreateUnmatchedRecord(i)
  \/ \E i \in RunIds : UnmatchedInsertLost(i) /\ UNCHANGED events
  \/ \E i \in RunIds : GetApplication(i)
  \/ \E i \in RunIds : UpdateApplicationStatus(i)
  \/ \E i \in RunIds : UpdateStatusHistory(i)
  \/ \E i \in RunIds : UpdateLost(i) /\ UNCHANGED events

SpecRetry == InitRetry /\ [][NextRetry]_vars

(***************************************************************************)
(* matchEmailToApplication on its own: one call for a recipient and an     *)
(* email drawn from the sets below (senders at company domains, at ATS     *)
(* providers inside and outside findApplicationByDomain's skip list, at a  *)
(* domain of a seeded alias family, and at an unknown domain).             *)
(***************************************************************************)
MatchUsers == {"u1", "u2"}

SenderDomains ==
  { <<"stripe", "com">>, <<"careers", "stripe", "com">>,
    <<"greenhouse", "io">>, <<"linkedin", "com">>,
    <<"smartrecruiters", "com">>, <<"myworkdayjobs", "com">>,
    <<"fb", "com">>, <<"example", "org">> }

ExtractedNames ==
  { <<>>, <<"stripe">>, <<"stripe", "inc">>, <<"linkedin">>, <<"meta">>,
    <<"acme">>, <<"inc">> }

InitMatch ==
  /\ InitTables
  /\ decide = DecideIdle
  /\ matching \in [email : [userId : MatchUsers, domain : SenderDomains,
                            ats : ExtractedNames,
                            subjectCompany : ExtractedNames],
                    called : {FALSE},
                    result : {MatchResult(0, 0, "none")}]
  /\ serial = SerialAt("APPLIED")

Match ==
  /\ ~matching.called
  /\ matching' = [matching EXCEPT
       !.called = TRUE,
       !.result = matchEmailToApplication(matching.email.userId,
                                          matching.email)]
  /\ UNCHANGED <<tables, runs, events, decide, serial>>

NextMatch == Match

SpecMatch == InitMatch /\ [][NextMatch]_vars

\* What each strategy finds for the email of the call, on its own.
ByATS ==
  IF extractCompanyFromATS(matching.email) # <<>>
    THEN findApplicationByCompanyName(matching.email.userId,
                                      extractCompanyFromATS(matching.email))
    ELSE 0

ByDomain == findApplicationByDomain(matching.email.userId, matching.email.domain)

BySubject ==
  IF matching.email.subjectCompany # <<>>
    THEN findApplicationByCompanyName(matching.email.userId,
                                      matching.email.subjectCompany)
    ELSE 0

(***************************************************************************)
(* getStatusTransition on its own: one call on inputs drawn from the whole *)
(* input space (7 categories, 9 statuses, confidences 0.00 .. 1.00).       *)
(***************************************************************************)
InitDecide ==
  /\ InitTables
  /\ decide \in [classification : EmailClassification,
                 confidence : Confidence,
                 currentStatus : ApplicationStatus,
                 called : {FALSE},
                 result : {NoTransition}]
  /\ matching = MatchIdle
  /\ serial = SerialAt("APPLIED")

Decide ==
  /\ ~decide.called
  /\ decide' = [decide EXCEPT
       !.called = TRUE,
       !.result = getStatusTransition(decide.classification,
                    decide.confidence, decide.currentStatus)]
  /\ UNCHANGED <<tables, runs, events, matching, serial>>

NextDecide == Decide

SpecDecide == InitDecide /\ [][NextDecide]_vars

DecideTarget == CLASSIFICATION_TO_STATUS[decide.classification]

DecideLegal ==
  /\ DecideTarget # NULL
  /\ DecideTarget \in VALID_TRANSITIONS[decide.currentStatus]

(***************************************************************************)
(* Emails of one application processed one run after the other, each run   *)
(* from 'get-application' to the end before the next starts, with no       *)
(* manual edit: the application starts in any status and every email has   *)
(* any category and a confidence of one of the three bands.                *)
(***************************************************************************)
SerialConfidences == {50, 75, 95}

InitSerial ==
  /\ InitTables
  /\ decide = DecideIdle
  /\ matching = MatchIdle
  /\ \E status \in ApplicationStatus : serial = SerialAt(status)

ProcessNext(classification, confidence) ==
  /\ Len(serial.trail) - 1 < MaxChanges
  /\ LET transition == getStatusTransition(classification, confidence,
                                           serial.status)
         applied == transition.shouldUpdate /\ transition.newStatus # NULL
         new == IF applied THEN transition.newStatus ELSE serial.status
     IN serial' = [status |-> new,
                   trail |-> IF new # serial.status
                               THEN Append(serial.trail, new)
                               ELSE serial.trail,
                   classification |-> classification,
                   applied |-> applied]
  /\ UNCHANGED <<tables, runs, events, decide, matching>>

NextSerial ==
  \E classification \in EmailClassification, confidence \in SerialConfidences :
    ProcessNext(classification, confidence)

SpecSerial == InitSerial /\ [][NextSerial]_vars

(***************************************************************************)
(* Properties.                                                             *)
(***************************************************************************)

\* C1: when the category maps to a target status that is not a legal
\* outgoing edge of the current status, the decision is shouldUpdate=false,
\* needsReview=true, whatever the confidence (0.9 and above included).
C1_InvalidEdgeWithheld ==
  (decide.called /\ DecideTarget # NULL /\ ~DecideLegal)
    => (decide.result.shouldUpdate = FALSE /\ decide.result.needsReview = TRUE)

C1_Witness ==
  /\ decide.called
  /\ decide.classification = "INTERVIEW_REQUEST"
  /\ decide.currentStatus = "REJECTED"
  /\ decide.confidence = 95
  /\ ~decide.result.shouldUpdate
  /\ decide.result.needsReview

LowConfidenceLegal(r) ==
  /\ r.application # NULL
  /\ r.classification.confidence < 70
  /\ CLASSIFICATION_TO_STATUS[r.classification.type] # NULL
  /\ CLASSIFICATION_TO_STATUS[r.classification.type]
       \in VALID_TRANSITIONS[r.application]

\* C4: confidence < 0.7 on a legal edge gives shouldUpdate=false,
\* needsReview=true, and the run then never enters the status-update step
\* and issues no write of the application's status.
C4_LowConfidenceNoWrite ==
  \A i \in RunIds :
    LowConfidenceLegal(runs[i])
      => /\ runs[i].transition.shouldUpdate = FALSE
         /\ runs[i].transition.needsReview = TRUE
         /\ runs[i].pc \notin {"update_status", "update_history"}
         /\ runs[i].statusWrites = 0

C4_Witness ==
  \E i \in RunIds :
    /\ LowConfidenceLegal(runs[i])
    /\ runs[i].pc = "processed"
    /\ runs[i].classification.type = "OFFER"
    /\ runs[i].application = "APPLIED"
    /\ appStatus[runs[i].matchResult.applicationId] = "APPLIED"
    /\ status_history = <<>>

\* C5: a category that maps to no target status (GENERIC_UPDATE, UNRELATED)
\* gives shouldUpdate=false, needsReview=false for every status and
\* confidence.
C5_NoTargetNoop ==
  (decide.called /\ DecideTarget = NULL)
    => (decide.result.shouldUpdate = FALSE /\ decide.result.needsReview = FALSE)

C5_Witness ==
  /\ decide.called
  /\ decide.classification = "GENERIC_UPDATE"
  /\ decide.confidence = 50
  /\ ~decide.result.shouldUpdate
  /\ ~decide.result.needsReview

\* C6 as stated: confidence < 0.7 gives shouldUpdate=false, needsReview=true
\* for every category and every status.
C6_Original ==
  (decide.called /\ decide.confidence < 70)
    => (decide.result.shouldUpdate = FALSE /\ decide.result.needsReview = TRUE)

\* C6 amended: confidence < 0.7 gives shouldUpdate=false for every category
\* and status, and needsReview=true exactly when the category maps to a
\* target status (legal edge or not); GENERIC_UPDATE and UNRELATED give
\* needsReview=false.
C6_LowConfidenceWithheld ==
  (decide.called /\ decide.confidence < 70)
    => /\ decide.result.shouldUpdate = FALSE
       /\ decide.result.needsReview = (DecideTarget # NULL)

C6_Witness ==
  /\ decide.called
  /\ decide.confidence = 69
  /\ decide.classification = "UNRELATED"
  /\ ~decide.result.shouldUpdate
  /\ ~decide.result.needsReview

\* C7: every recorded status change (status_history row with a prior
\* status) goes along a legal edge of the transition table.
C7_HistoryAlongEdges ==
  \A k \in DOMAIN status_history :
    status_history[k].from_status # NULL
      => status_history[k].to_status
           \in VALID_TRANSITIONS[status_history[k].from_status]

\* C8: the status write of step 'update-application-status' leaves the
\* stored status alone when it no longer equals the status read in step
\* 'get-application'.
C8_OptimisticWrite ==
  [][\A i \in RunIds :
       (/\ runs[i].pc = "update_status"
        /\ runs'[i].pc = "update_history"
        /\ appStatus[runs[i].matchResult.applicationId] # runs[i].application)
         => appStatus' = appStatus]_vars

\* C9: a run for a message that an earlier run has already fully processed
\* adds no application_emails row, adds no status_history row and leaves
\* every application's status unchanged.
C9_ReplayAddsNothing ==
  [][\A j \in RunIds :
       (runs[j].afterSuccess /\ runs'[j] # runs[j])
         => /\ Len(application_emails') = Len(application_emails)
            /\ Len(status_history') = Len(status_history)
            /\ appStatus' = appStatus]_vars

\* C10: a finished run, whichever of its steps were executed again, has
\* created exactly one application_emails row and caused at most one
\* status_history row.
C10_ExactlyOnce ==
  \A i \in RunIds :
    runs[i].pc \in Finished
      => /\ Cardinality({k \in DOMAIN application_emails :
                           application_emails[k].run = i}) = 1
         /\ Cardinality({k \in DOMAIN status_history :
                           status_history[k].by = i}) <= 1


\* The application_emails row a run holds the id of carries the run's
\* classification.
HasEmailRecord(i) ==
  /\ runs[i].emailRecord \in DOMAIN application_emails
  /\ LET row == application_emails[runs[i].emailRecord] IN
       /\ row.run = i
       /\ row.classification = runs[i].classification.type
       /\ row.classification \in EmailClassification
       /\ row.classification_confidence = runs[i].classification.confidence

C12_ClassifierFailureHarmless ==
  \A i \in RunIds :
    runs[i].classifyFailed =>
      /\ runs[i].classification = [type |-> "GENERIC_UPDATE", confidence |-> 50]
      /\ runs[i].pc \in Finished => HasEmailRecord(i)
      /\ runs[i].statusWrites = 0
      /\ runs[i].pc \notin {"update_status", "update_history"}
      /\ runs[i].transition = NoTransition
      /\ \A k \in DOMAIN status_history : status_history[k].by # i

\* C12 witness: a run whose model call failed matched an application, took
\* the decision and reported 'processed'.
C12_Witness ==
  \E i \in RunIds :
    /\ runs[i].classifyFailed
    /\ runs[i].matchResult.applicationId # 0
    /\ runs[i].application # NULL
    /\ runs[i].pc = "processed"

TERMINAL_STATUSES == {"ACCEPTED", "REJECTED", "WITHDRAWN"}

\* The list ids is ordered most recently created first, names only
\* applications of user whose status in seen is in eligible, holds at most
\* SUGGESTION_LIMIT ids, and leaves an eligible application out only when
\* it is full of more recent ones.
SuggestionsOf(ids, user, seen, eligible) ==
  LET pool == {a \in AppIds : /\ APPLICATIONS[a].user_id = user
                              /\ seen[a] \in eligible}
      listed == {ids[k] : k \in DOMAIN ids}
  IN /\ Len(ids) <= SUGGESTION_LIMIT
     /\ listed \subseteq pool
     /\ \A k, l \in DOMAIN ids :
          k < l => APPLICATIONS[ids[k]].created_at
                     > APPLICATIONS[ids[l]].created_at
     /\ \A a \in pool \ listed :
          /\ Len(ids) = SUGGESTION_LIMIT
          /\ \A b \in listed :
               APPLICATIONS[b].created_at > APPLICATIONS[a].created_at

\* The unmatched_emails rows written for run i.
UnmatchedRowsOf(i) ==
  {u \in DOMAIN unmatched_emails :
     unmatched_emails[u].email_id = runs[i].emailRecord}

\* C13 as stated: a run that reported 'unmatched' has persisted one
\* pending entry for its email record, whose list is the (at most five) most
\* recently created applications of the recipient that were in a status
\* other than ACCEPTED, REJECTED, WITHDRAWN, most recent first.
C13_Original ==
  \A i \in RunIds :
    runs[i].pc = "unmatched" =>
      /\ Cardinality(UnmatchedRowsOf(i)) = 1
      /\ \A u \in UnmatchedRowsOf(i) :
           /\ unmatched_emails[u].status = "pending"
           /\ SuggestionsOf(unmatched_emails[u].suggested_application_ids,
                            unmatched_emails[u].user_id,
                            unmatched_emails[u].seen,
                            ApplicationStatus \ TERMINAL_STATUSES)

\* C14: the status_history row of a status change that a finished run
\* applied references that run's email record and carries a trigger type
\* other than 'manual' that tells the two applied outcomes apart:
\* 'email_auto' exactly when the decision had needsReview = FALSE.
C14_TriggerTypeTellsReview ==
  \A k \in DOMAIN status_history :
    LET row == status_history[k] IN
    (row.by # 0 /\ runs[row.by].pc = "processed") =>
      /\ row.trigger_type # "manual"
      /\ row.trigger_type = "email_auto" <=> ~runs[row.by].transition.needsReview
      /\ row.trigger_email_id = runs[row.by].emailRecord

\* C15: a step is executed again after a failure at most Retries (three)
\* times; one more failure ends the run as 'failed', and only such a
\* failure does; a failed run takes no further step and never reports
\* 'processed' or 'unmatched'.
C15_BoundedRetries ==
  [][\A i \in RunIds :
       /\ runs[i].attempts <= Retries
       /\ runs'[i].attempts <= Retries
       /\ runs[i].pc = "failed" => (runs'[i] = runs[i] /\ tables' = tables)
       /\ (runs[i].pc # "failed" /\ runs'[i].pc = "failed") =>
            /\ runs[i].attempts = Retries
            /\ runs[i].pc \notin Finished]_vars

\* C15 witness: a run has ended as 'failed'.
C15_Witness ==
  \E i \in RunIds : runs[i].pc = "failed" /\ runs[i].attempts = Retries

\* C16: a run reports 'unmatched' only when its unmatched_emails row is
\* stored, and reports 'processed' after a status write only when a
\* status_history row carries its trigger data.
C16_NoSilentWriteFailure ==
  \A i \in RunIds :
    /\ runs[i].pc = "unmatched" => UnmatchedRowsOf(i) # {}
    /\ (runs[i].pc = "processed" /\ runs[i].statusWrites > 0) =>
         \E k \in DOMAIN status_history :
           /\ status_history[k].application_id =
                runs[i].matchResult.applicationId
           /\ status_history[k].trigger_email_id = runs[i].emailRecord

\* C17: the first strategy that finds an application wins: an application
\* found through the ATS-extracted name is the result with method 'ats'
\* whatever the domain and subject rules find; 'domain' results only when
\* ATS found nothing, 'fuzzy' only when ATS and domain found nothing, and
\* 'none' only when no strategy found anything.
C17_PriorityOrder ==
  matching.called =>
    LET r == matching.result IN
    /\ ByATS # 0 => (r.applicationId = ByATS /\ r.matchType = "ats")
    /\ r.matchType = "ats" => r.applicationId = ByATS
    /\ r.matchType = "domain" =>
         (ByATS = 0 /\ ByDomain # 0 /\ r.applicationId = ByDomain)
    /\ r.matchType = "fuzzy" =>
         (ByATS = 0 /\ ByDomain = 0 /\ BySubject # 0
          /\ r.applicationId = BySubject)
    /\ r.matchType = "none" => (ByATS = 0 /\ ByDomain = 0 /\ BySubject = 0)

\* C17 witness: the ATS name finds one application, the sender domain
\* another, the subject rule finds one too; the call returned the ATS one.
C17_Witness ==
  /\ matching.called
  /\ ByATS # 0 /\ ByDomain # 0 /\ ByDomain # ByATS /\ BySubject # 0
  /\ matching.result.matchType = "ats"

\* C18: the confidence is fixed by the method (ats 0.9, domain 0.95,
\* fuzzy 0.7, none 0), lies in [0,1], and the application id is null
\* exactly when the method is 'none'.
C18_ConfidenceByMethod ==
  matching.called =>
    LET r == matching.result IN
    /\ r.matchType \in {"ats", "domain", "fuzzy", "none"}
    /\ r.matchType = "ats" => r.confidence = 90
    /\ r.matchType = "domain" => r.confidence = 95
    /\ r.matchType = "fuzzy" => r.confidence = 70
    /\ r.matchType = "none" => r.confidence = 0
    /\ r.applicationId = 0 <=> r.matchType = "none"
    /\ r.applicationId \in AppIds \cup {0}
    /\ r.confidence \in 0..MaxConfidence

\* C18 witness: a call answered by the direct-domain rule.
C18_Witness ==
  /\ matching.called
  /\ matching.result.matchType = "domain"
  /\ matching.result.applicationId # 0

\* C19: for a sender at the domain of a provider that has an extraction
\* pattern, the result never has method 'domain'.
C19_NoDomainMatchForATS ==
  (/\ matching.called
   /\ \E ats \in ATS_PATTERNS : Includes(matching.email.domain, ats))
    => matching.result.matchType # "domain"

\* Seed rows of the company domain families (a sample of the list): the
\* canonical name with its domain and alias domains.
COMPANY_DOMAIN_ALIASES ==
  { [name |-> <<"meta">>,
     domains |-> {<<"meta", "com">>, <<"facebook", "com">>, <<"fb", "com">>}],
    [name |-> <<"microsoft">>,
     domains |-> {<<"microsoft", "com">>, <<"linkedin", "com">>,
                  <<"github", "com">>}] }

\* The documented alias lookup: the recipient's application whose company
\* is the canonical name of a family the sender domain belongs to.
findApplicationByDomainAlias(userId, domain) ==
  LET names == {c.name : c \in {c \in COMPANY_DOMAIN_ALIASES :
                                  \E d \in c.domains : Includes(domain, d)}}
      found == {findApplicationByCompanyName(userId, n) : n \in names} \ {0}
  IN MostRecent(found)

\* C20: when ATS extraction and the direct-domain rule find nothing and the
\* sender domain belongs to a family whose canonical name is a tracked
\* company, the call returns that application with confidence 0.85.
C20_DomainAliasStep ==
  (/\ matching.called
   /\ ByATS = 0 /\ ByDomain = 0
   /\ findApplicationByDomainAlias(matching.email.userId,
                                   matching.email.domain) # 0)
    => /\ matching.result.applicationId =
            findApplicationByDomainAlias(matching.email.userId,
                                         matching.email.domain)
       /\ matching.result.confidence = 85

C22_WriteOnceRows ==
  [][/\ \A e \in DOMAIN application_emails :
          application_emails'[e] = application_emails[e]
     /\ \A k \in DOMAIN status_history :
          status_history'[k] # status_history[k] =>
            /\ status_history[k].by # 0
            /\ runs[status_history[k].by].pc = "update_history"
            /\ runs'[status_history[k].by].pc = "processed"
            /\ status_history[k].trigger_email_id = 0]_vars

\* C23: ACCEPTED, REJECTED and WITHDRAWN have no outgoing edge; each step
\* of SAVED, APPLIED, SCREENING, INTERVIEWING, OFFER, ACCEPTED is an edge;
\* GHOSTED is entered from APPLIED, SCREENING and INTERVIEWING only and
\* left to SCREENING, INTERVIEWING and REJECTED only; no status has an edge
\* to itself; and a call of getStatusTransition whose category has a target
\* proposes a status exactly along these edges.
C23_EdgeRelation ==
  /\ \A s \in TERMINAL_STATUSES : VALID_TRANSITIONS[s] = {}
  /\ LET chain == <<"SAVED", "APPLIED", "SCREENING", "INTERVIEWING",
                    "OFFER", "ACCEPTED">>
     IN \A k \in 1..(Len(chain) - 1) :
          chain[k + 1] \in VALID_TRANSITIONS[chain[k]]
  /\ {s \in ApplicationStatus : "GHOSTED" \in VALID_TRANSITIONS[s]} =
       {"APPLIED", "SCREENING", "INTERVIEWING"}
  /\ VALID_TRANSITIONS["GHOSTED"] = {"SCREENING", "INTERVIEWING", "REJECTED"}
  /\ \A s \in ApplicationStatus : s \notin VALID_TRANSITIONS[s]
  /\ (decide.called /\ DecideTarget # NULL) =>
       /\ decide.currentStatus \in TERMINAL_STATUSES =>
            decide.result.newStatus = NULL
       /\ decide.result.newStatus # NULL <=>
            DecideTarget \in VALID_TRANSITIONS[decide.currentStatus]

\* C23 witness: a call for a GHOSTED application proposed SCREENING.
C23_Witness ==
  /\ decide.called
  /\ decide.currentStatus = "GHOSTED"
  /\ decide.result.newStatus = "SCREENING"

\* C24: a status write of a pipeline run never changes a stored status that
\* is ACCEPTED, REJECTED or WITHDRAWN.
C24_TerminalStaysPut ==
  [][\A a \in AppIds :
       (/\ appStatus[a] \in TERMINAL_STATUSES
        /\ \E i \in RunIds : runs'[i].statusWrites > runs[i].statusWrites)
         => appStatus'[a] = appStatus[a]]_vars

\* The application_emails rows inserted by run i.
EmailRowsOf(i) ==
  {e \in DOMAIN application_emails : application_emails[e].run = i}

\* C25: a run that reported 'processed' for a matched email classified
\* GENERIC_UPDATE or UNRELATED has inserted exactly one application_emails
\* row, linked to the matched application, has written no status, owns no
\* status_history row, is referenced by none, and has no unmatched_emails
\* row.
C25_NoopCategoryOnlyRecords ==
  \A i \in RunIds :
    (/\ runs[i].pc = "processed"
     /\ runs[i].matchResult.applicationId # 0
     /\ runs[i].classification.type \in {"GENERIC_UPDATE", "UNRELATED"}) =>
      /\ Cardinality(EmailRowsOf(i)) = 1
      /\ \A e \in EmailRowsOf(i) :
           /\ application_emails[e].application_id =
                runs[i].matchResult.applicationId
           /\ \A k \in DOMAIN status_history :
                status_history[k].trigger_email_id # e
           /\ \A u \in DOMAIN unmatched_emails :
                unmatched_emails[u].email_id # e
      /\ runs[i].statusWrites = 0
      /\ \A k \in DOMAIN status_history : status_history[k].by # i

\* The status_history rows of application a.
HistoryOf(a) ==
  {k \in DOMAIN status_history : status_history[k].application_id = a}

\* C26: a step that changes the stored status of an application appends
\* exactly one status_history row, for that application, from the status
\* before to the status after; a step that changes no status (a write of
\* the same value included) appends none; rows are never removed.
C26_OneEntryPerChange ==
  [][LET changed == {a \in AppIds : appStatus'[a] # appStatus[a]}
         n == Len(status_history)
     IN /\ Len(status_history') = n + Cardinality(changed)
        /\ Cardinality(changed) <= 1
        /\ \A a \in changed :
             /\ status_history'[n + 1].application_id = a
             /\ status_history'[n + 1].from_status = appStatus[a]
             /\ status_history'[n + 1].to_status = appStatus'[a]
        /\ \A a \in AppIds :
             Cardinality({k \in DOMAIN status_history' :
                            status_history'[k].application_id = a})
               = Cardinality(HistoryOf(a))
                 + (IF a \in changed THEN 1 ELSE 0)]_vars

\* C26 witness: a manual edit changed a status and got its row, and a run
\* then wrote the value the status already had and got none.
C26_Witness ==
  \E i \in RunIds :
    /\ runs[i].statusWrites > 0
    /\ \A k \in DOMAIN status_history : status_history[k].by # i
    /\ \E k \in HistoryOf(runs[i].matchResult.applicationId) :
         /\ status_history[k].by = 0
         /\ status_history[k].to_status = runs[i].transition.newStatus

\* C27: a status_history row that references an email record was created
\* by the status write of the run that inserted that record, and its new
\* status is the target that run decided; a row created by a manual edit
\* references no email record and keeps trigger type 'manual'.
C27_TriggerReferenceIsOwn ==
  \A k \in DOMAIN status_history :
    LET row == status_history[k] IN
    /\ row.trigger_email_id # 0 =>
         /\ row.by = application_emails[row.trigger_email_id].run
         /\ row.to_status = runs[row.by].transition.newStatus
    /\ row.by = 0 =>
         (row.trigger_email_id = 0 /\ row.trigger_type = "manual")

\* C28: an application_emails row has an unmatched_emails row exactly when
\* it was inserted with no application by a run that reported 'unmatched',
\* and it never has more than one.
C28_UnmatchedEntryIffUnmatched ==
  \A e \in DOMAIN application_emails :
    LET entries == {u \in DOMAIN unmatched_emails :
                      unmatched_emails[u].email_id = e}
    IN /\ Cardinality(entries) <= 1
       /\ entries # {} <=>
            /\ application_emails[e].application_id = 0
            /\ runs[application_emails[e].run].pc = "unmatched"

\* The target the category is documented to map to.
MappedTarget(c) ==
  CASE c = "REJECTION" -> "REJECTED"
    [] c = "INTERVIEW_REQUEST" -> "INTERVIEWING"
    [] c = "OFFER" -> "OFFER"
    [] c \in {"SCREENING_INVITE", "ASSESSMENT_REQUEST"} -> "SCREENING"
    [] OTHER -> NULL

\* t is a decision to update for category c on status current: its new
\* status is the mapped target of c, a legal edge from current, not current
\* itself and not one of SAVED, APPLIED, ACCEPTED, WITHDRAWN, GHOSTED.
SoundUpdate(t, c, current) ==
  t.shouldUpdate =>
    /\ t.newStatus # NULL
    /\ t.newStatus = MappedTarget(c)
    /\ t.newStatus \in VALID_TRANSITIONS[current]
    /\ t.newStatus # current
    /\ t.newStatus \notin {"SAVED", "APPLIED", "ACCEPTED", "WITHDRAWN", "GHOSTED"}

\* C29: every result of getStatusTransition with shouldUpdate = TRUE names
\* the mapped target of the category, which is a legal edge from the current
\* status and differs from it; so does the decision every pipeline run
\* takes, and every status a run writes is REJECTED, INTERVIEWING, OFFER or
\* SCREENING.
C29_UpdateTargetsSound ==
  /\ decide.called =>
       SoundUpdate(decide.result, decide.classification, decide.currentStatus)
  /\ \A i \in RunIds :
       /\ runs[i].application # NULL =>
            SoundUpdate(runs[i].transition, runs[i].classification.type,
                        runs[i].application)
       /\ runs[i].pc \in {"update_status", "update_history"} =>
            runs[i].transition.shouldUpdate
  /\ \A k \in DOMAIN status_history :
       status_history[k].by # 0 =>
         status_history[k].to_status \in
           {"REJECTED", "INTERVIEWING", "OFFER", "SCREENING"}

\* C29 witness: a call decided to update a GHOSTED application to SCREENING
\* on an assessment request.
C29_Witness ==
  /\ decide.called
  /\ decide.result.shouldUpdate
  /\ decide.classification = "ASSESSMENT_REQUEST"
  /\ decide.currentStatus = "GHOSTED"
  /\ decide.result.newStatus = "SCREENING"

\* C30: with emails processed one after the other and no manual edit, no
\* status is ever taken twice, the status changes at most 4 times, and an
\* email of the category that has just been applied changes nothing.
C30_SerialChangesBounded ==
  [][/\ Len(serial'.trail) - 1 <= 4
     /\ \A k, l \in DOMAIN serial'.trail :
          k # l => serial'.trail[k] # serial'.trail[l]
     /\ (serial.applied /\ serial'.classification = serial.classification)
          => (serial'.status = serial.status /\ ~serial'.applied)]_vars

\* C30 witness: the longest chain, followed by a second rejection.
C30_Witness ==
  /\ serial.trail =
       <<"APPLIED", "SCREENING", "INTERVIEWING", "OFFER", "REJECTED">>
  /\ serial.classification = "REJECTION"
  /\ ~serial.applied

====
